---- MODULE Spec2Model ----
(***************************************************************************)
(* Model of mith: the stateful advertisement decoder of src/mith.py        *)
(* (MiTH.decode_data_atc and its per-address counter) and the scan session *)
(* of src/btle.py (BtLe.handle_le_advertising_events and the receive loop  *)
(* BtLe.parse_le_advertising_events).                                      *)
(***************************************************************************)
EXTENDS Integers, Sequences, FiniteSets, TLC

\* ------------------------------------------------------------------------
\* Bounds of the model
\* ------------------------------------------------------------------------
\* the sequence bytes 0..SeqLow, 5, 8 and 255 are fed to the decoder
SeqLow == 1
\* data blocks of 0..MaxDataLen bytes follow the prefix of a payload
MaxDataLen == 16
\* the receive call returns frames of 0..MaxFrameLen bytes
MaxFrameLen == 15
\* the receive call is made at most MaxFrames times in a session
MaxFrames == 2
\* time.perf_counter() returns values up to MaxClock
MaxClock == 3

\* ------------------------------------------------------------------------
\* Python values
\* ------------------------------------------------------------------------
\* None, as a value returned in the place of a Measurement
None == <<>>

\* a dict as a function on the set of its keys: {} and d[key] = value
EmptyDict == <<>>
DictSet(d, key, value) ==
    [k \in (DOMAIN d) \cup {key} |-> IF k = key THEN value ELSE d[k]]

\* the sequence bytes the model feeds in: both ends of the byte range and
\* the values 5 and 8
SeqBytes == (0..SeqLow) \cup {5, 8, 255}

\* addresses, as the six octets of the canonical colon separated string
Macs == { <<"A4", "C1", "38", "AA", "BB", "CC">>,
          <<"11", "22", "33", "44", "55", "66">> }

\* ------------------------------------------------------------------------
\* src/mith.py
\* ------------------------------------------------------------------------
ATC1441 == "ATC1441"
PVVX == "PVVX"

\* preamble = b'\x16\x1a\x18'
preamble == <<22, 26, 24>>

\* packet[offset:] for 0 <= offset
SliceFrom(s, offset) == SubSeq(s, offset + 1, Len(s))

\* s[lo:hi] for 0 <= lo, 0 <= hi
Slice(s, lo, hi) == SubSeq(s, lo + 1, IF hi < Len(s) THEN hi ELSE Len(s))

\* bytes.rfind in the place of bytes.find: the highest index
RFind(s, sub) ==
    LET hits == { i \in 0..(Len(s) - Len(sub)) :
                    SubSeq(s, i + 1, i + Len(sub)) = sub }
    IN  IF hits = {} THEN -1
        ELSE CHOOSE i \in hits : \A j \in hits : i >= j

\* bytes.find: lowest 0-based index at which sub occurs in s, else -1
Find(s, sub) ==
    LET hits == { i \in 0..(Len(s) - Len(sub)) :
                    SubSeq(s, i + 1, i + Len(sub)) = sub }
    IN  IF hits = {} THEN -1
        ELSE CHOOSE i \in hits : \A j \in hits : i <= j

\* int.from_bytes(b, byteorder='big', signed=False)
FromBytesBig(b) == IF Len(b) = 2 THEN 256 * b[1] + b[2] ELSE b[1]

\* the bytes of a little-endian field read big-endian
FromBytesSwapped(b) == IF Len(b) = 2 THEN 256 * b[1] + b[2] ELSE b[1]

\* int.from_bytes(b, byteorder='little', signed=False)
FromBytesLittle(b) == IF Len(b) = 2 THEN b[1] + 256 * b[2] ELSE b[1]

\* signed=False in the place of signed=True
Unsigned16(u) == u

\* two's complement reading of an unsigned 16-bit value (signed=True)
Signed16(u) == IF u >= 32768 THEN u - 65536 ELSE u

\* Python truthiness of d.get(key): None (no such key) and 0 are falsy
Truthy(d, key) == key \in DOMAIN d /\ d[key] # 0

\* device_type of a data block, None for an unknown length (lines 113-122)
UnknownDevice == "unknown"
DeviceTypeOf(data) ==
    IF Len(data) = 13 THEN ATC1441
    ELSE IF Len(data) = 15 THEN PVVX
    ELSE UnknownDevice

\* adv_number_offset = -1 for both device types
AdvNumberLast(data) == data[Len(data)]

\* data[adv_number_offset] (lines 116, 119, 124)
AdvNumberOf(data) ==
    IF Len(data) = 13 THEN data[Len(data)] ELSE data[Len(data) - 1]

\* adv_missed, with adv_number_prev = counter.get(mac) (lines 125, 129)
AdvMissed(adv_number, counter, mac) ==
    IF Truthy(counter, mac) THEN adv_number - counter[mac] - 1 ELSE 0

\* the field decoding of lines 132-141; floats are kept as num/den
DecodeFields(device_type, data) ==
    IF device_type = ATC1441
    THEN [ temperature |-> [num |-> Signed16(FromBytesBig(Slice(data, 6, 8))), den |-> 10],
           humidity |-> [num |-> data[9], den |-> 1],
           battery_percentage |-> data[10],
           battery_voltage |-> FromBytesBig(Slice(data, 10, 12)) ]
    ELSE [ temperature |-> [num |-> Signed16(FromBytesLittle(Slice(data, 6, 8))), den |-> 100],
           humidity |-> [num |-> FromBytesLittle(Slice(data, 8, 10)), den |-> 100],
           battery_voltage |-> FromBytesLittle(Slice(data, 10, 12)),
           battery_percentage |-> data[13] ]

\* the preamble-stripped data of a packet that holds the preamble
\* (lines 109-110)
DataOf(packet) == SliceFrom(packet, Find(packet, preamble) + Len(preamble))

\* a duplicate test that takes a recorded 0 for no record
IsDuplicateFalsy(adv_number, counter, mac) ==
    Truthy(counter, mac) /\ adv_number = counter[mac]

\* adv_number == adv_number_prev, with adv_number_prev = counter.get(mac)
\* (lines 125-126); None equals no integer
IsDuplicate(adv_number, counter, mac) ==
    mac \in DOMAIN counter /\ adv_number = counter[mac]

\* decode_data_atc with one counter shared by all addresses
DecodeDataAtcShared(counter, mac, packet) ==
    IF Find(packet, preamble) = -1 THEN [ret |-> None, counter |-> counter]
    ELSE LET data == DataOf(packet)
             device_type == DeviceTypeOf(data)
             adv_number == AdvNumberOf(data)
         IN  IF device_type = UnknownDevice
             THEN [ret |-> None, counter |-> counter]
             ELSE IF IsDuplicate(adv_number, counter, mac)
             THEN [ret |-> None, counter |-> counter]
             ELSE [ret |-> [ device_type |-> device_type,
                             adv_number |-> adv_number,
                             adv_missed |-> AdvMissed(adv_number, counter, mac),
                             fields |-> DecodeFields(device_type, data) ],
                   counter |-> [k \in Macs |-> adv_number]]

\* decode_data_atc recording adv_missed in the place of adv_number
DecodeDataAtcStoresMissed(counter, mac, packet) ==
    IF Find(packet, preamble) = -1 THEN [ret |-> None, counter |-> counter]
    ELSE LET data == DataOf(packet)
             device_type == DeviceTypeOf(data)
             adv_number == AdvNumberOf(data)
         IN  IF device_type = UnknownDevice
             THEN [ret |-> None, counter |-> counter]
             ELSE IF IsDuplicate(adv_number, counter, mac)
             THEN [ret |-> None, counter |-> counter]
             ELSE [ret |-> [ device_type |-> device_type,
                             adv_number |-> adv_number,
                             adv_missed |-> AdvMissed(adv_number, counter, mac),
                             fields |-> DecodeFields(device_type, data) ],
                   counter |-> DictSet(counter, mac, AdvMissed(adv_number, counter, mac))]

\* MiTH.decode_data_atc as a function of the counter map: the value returned
\* and the counter map left behind
DecodeDataAtc(counter, mac, packet) ==
    IF Find(packet, preamble) = -1 THEN [ret |-> None, counter |-> counter]
    ELSE LET data == DataOf(packet)
             device_type == DeviceTypeOf(data)
             adv_number == AdvNumberOf(data)
         IN  IF device_type = UnknownDevice
             THEN [ret |-> None, counter |-> counter]
             ELSE IF IsDuplicate(adv_number, counter, mac)
             THEN [ret |-> None, counter |-> counter]
             ELSE [ret |-> [ device_type |-> device_type,
                             adv_number |-> adv_number,
                             adv_missed |-> AdvMissed(adv_number, counter, mac),
                             fields |-> DecodeFields(device_type, data) ],
                   counter |-> DictSet(counter, mac, adv_number)]

\* sensors, the static table of lines 20-23: both entries of the dict
\* display have the key 'A4:C1:38:xx:xx:xx', so the second one stays
ConfiguredMac == <<"A4", "C1", "38", "xx", "xx", "xx">>
sensors == [k \in {ConfiguredMac} |-> "kitchen"]

\* the address string of six octets, colon separated
MacStr(mac) ==
    mac[1] \o ":" \o mac[2] \o ":" \o mac[3] \o ":" \o mac[4] \o ":" \o mac[5]
    \o ":" \o mac[6]

\* re.match('A4:C1:38:(..):(..):(..)', mac)
VendorMatch(mac) == mac[1] = "A4" /\ mac[2] = "C1" /\ mac[3] = "38"

\* sensor_name with the derived label tried before the table
SensorNameDerivedFirst(mac) ==
    IF VendorMatch(mac) THEN mac[4] \o mac[5] \o mac[6]
    ELSE IF mac \in DOMAIN sensors /\ sensors[mac] # "" THEN sensors[mac]
    ELSE MacStr(mac)

\* MiTH.sensor_name (lines 150-157); an empty label is falsy
SensorName(mac) ==
    IF mac \in DOMAIN sensors /\ sensors[mac] # "" THEN sensors[mac]
    ELSE IF VendorMatch(mac) THEN mac[4] \o mac[5] \o mac[6]
    ELSE MacStr(mac)

\* _latest_measurement_time after the handler's call of decode_data_atc
\* returned measurement, written whatever was returned
LatestTimeAlways(times, mac, measurement, now) == DictSet(times, mac, now)

\* _latest_measurement_time after the handler's call of decode_data_atc
\* returned measurement (lines 89, 95)
LatestTime(times, mac, measurement, now) ==
    IF measurement # None THEN DictSet(times, mac, now) ELSE times

\* elapsed of line 93 as the sequence of its value, empty for None
Elapsed(times, mac, now) ==
    IF Truthy(times, mac) THEN <<now - times[mac]>> ELSE <<>>

\* what line 100 logs for a measurement: the measurement with its
\* sensor_name, the signal strength, the elapsed time unless it is None or
\* zero, the missed count unless it is zero
LogLine(measurement, mac, rssi, elapsed) ==
    [ measurement |-> measurement,
      sensor_name |-> SensorName(mac),
      rssi |-> rssi,
      elapsed |-> IF elapsed # <<>> /\ elapsed # <<0>> THEN elapsed ELSE <<>>,
      missed |-> IF measurement.adv_missed # 0 THEN <<measurement.adv_missed>> ELSE <<>> ]

\* ------------------------------------------------------------------------
\* The payloads fed to the decoder
\* ------------------------------------------------------------------------
\* what precedes the data block: nothing, a flags structure, a cut preamble,
\* the preamble, a length byte and the preamble, a preamble after its own
\* first byte
Prefixes == << <<>>, <<2, 1, 6>>, <<22, 26>>, preamble,
               <<16>> \o preamble, <<22>> \o preamble >>

\* the bytes of a data block before its last two: an ATC1441/pvvx body, a
\* body that itself starts with the preamble, and a body whose temperature
\* bytes have the top bit set when read big-endian
Templates == << <<164, 193, 56, 170, 187, 204, 0, 250, 60, 100, 184, 11, 85, 7>>,
                <<22, 26, 24, 170, 187, 204, 255, 56, 112, 23, 184, 11, 85, 7>>,
                <<164, 193, 56, 170, 187, 204, 255, 56, 112, 23, 184, 11, 85, 7>> >>

TemplateByte(t, i) == IF i <= Len(Templates[t]) THEN Templates[t][i] ELSE 0

\* a data block of n bytes ending in the bytes x, y
DataBlock(t, n, x, y) ==
    [i \in 1..n |-> IF i = n THEN y ELSE IF i = n - 1 THEN x ELSE TemplateByte(t, i)]

Packet(p, t, n, x, y) == Prefixes[p] \o DataBlock(t, n, x, y)

\* the payloads of the model, as arguments <<p, t, n, x, y>> of Packet:
\* every length of data block after the preamble; every prefix with a
\* body of 13 and of 15 bytes, and with a 16 byte body that starts with the
\* preamble; every sequence byte in either of the last two places of a
\* block of 13 and of 15 bytes, next to the byte 7; the third body with 13
\* and 15 bytes
PacketArgs ==
    { <<4, 1, n, 5, 8>> : n \in 0..MaxDataLen }
    \cup { <<p, 1, n, 5, 8>> : p \in 1..Len(Prefixes), n \in {13, 15} }
    \cup { <<p, 2, 16, 5, 8>> : p \in 1..Len(Prefixes) }
    \cup { <<5, 1, n, x, x>> : n \in {13, 15}, x \in SeqBytes }
    \cup { <<5, 1, n, x, 7>> : n \in {13, 15}, x \in SeqBytes }
    \cup { <<5, 1, n, 7, y>> : n \in {13, 15}, y \in SeqBytes }
    \cup { <<5, 3, n, 5, 8>> : n \in {13, 15} }

Packets == { Packet(arg[1], arg[2], arg[3], arg[4], arg[5]) : arg \in PacketArgs }

\* the payloads handed to the handler: blocks of 13 and of 15 bytes with
\* the sequence bytes 0..SeqLow and 5, a block of 14 bytes, a payload
\* without the preamble
HandlerPackets ==
    { Packet(5, 1, 13, 7, x) : x \in (0..SeqLow) \cup {5} }
    \cup { Packet(5, 1, 15, x, 7) : x \in (0..SeqLow) \cup {5} }
    \cup { Packet(4, 1, 14, 5, 8), Packet(2, 1, 13, 5, 8) }

\* the addresses handed to the handler: the configured one, one with the
\* vendor prefix, one without
HandlerMacs == Macs \cup {ConfiguredMac}

\* the signal strengths handed to the handler
RssiValues == {-56}

\* ------------------------------------------------------------------------
\* src/btle.py
\* ------------------------------------------------------------------------
LE_META_EVENT == 62
EVT_LE_ADVERTISING_REPORT == 2

\* the exceptions of a session
KeyboardInterrupt == "KeyboardInterrupt"
StructError == "struct.error"
OSError == "OSError"
BluezError == "bluez.error"
AddrError == "ba2str error"
OpenError == "Exception: cannot open bluetooth device"
NoExc == "none"

\* the filter bluez.hci_filter_new() with HCI_EVENT_PKT and LE_META_EVENT
\* set (lines 79-81), and the filters a freshly opened handle may carry
NewFilter == "event_pkt/le_meta"
OpenFilters == {"cleared", "all_events"}

\* struct "b": a byte read as a signed 8-bit integer
Signed8(u) == IF u >= 128 THEN u - 256 ELSE u

\* bluez.ba2str of six bytes: the octets in reverse order (each is printed
\* as two hex digits, colon separated)
Ba2Str(b) == [i \in 1..6 |-> b[7 - i]]

\* s[lo:-1] for 0 <= lo
SliceToLast(s, lo) == SubSeq(s, lo + 1, Len(s) - 1)

\* the body of the receive loop from the frame to the handler call (lines
\* 87-102): a struct.error of an unpack that is given too few bytes, a
\* continue, or the arguments of the handler; addr is pkt[3:9], which is
\* shorter than six bytes for a frame of fewer than 13
ParseFrame(full_pkt) ==
    IF Len(full_pkt) < 3 THEN [kind |-> "raise", exc |-> StructError]
    ELSE IF full_pkt[2] # LE_META_EVENT THEN [kind |-> "continue"]
    ELSE IF Len(Slice(full_pkt, 3, 4)) < 1 THEN [kind |-> "raise", exc |-> StructError]
    ELSE IF full_pkt[4] # EVT_LE_ADVERTISING_REPORT THEN [kind |-> "continue"]
    ELSE LET pkt == SliceFrom(full_pkt, 4)
         IN  IF Len(Slice(pkt, 1, 2)) < 1 THEN [kind |-> "raise", exc |-> StructError]
             ELSE [ kind |-> "handler",
                    adv_type |-> Signed8(pkt[2]),
                    addr |-> Slice(pkt, 3, 9),
                    data |-> SliceToLast(pkt, 9),
                    rssi |-> Signed8(full_pkt[Len(full_pkt)]) ]

\* the positions of parse_le_advertising_events inside its try block
\* (lines 84-109), where line 111 catches a KeyboardInterrupt
InLoopTry == {"recv", "parse", "handler", "log_failure"}

\* the positions of handle_le_advertising_events inside its try block
\* (lines 129-130)
InSessionTry == {"getsockopt", "setsockopt", "enter_loop"} \cup InLoopTry

\* setting new_filter again in the place of old_filter
RestoreInstalled(saved, installed) == installed

\* the filter the loop sets on the handle when it is interrupted (line 113)
RestoreValue(saved, installed) == saved

\* a raise at the end of the session's except clause
SessionReraises == FALSE

\* does the session's except KeyboardInterrupt clause end by returning
\* (lines 131-132: there is no raise after le_scan_disable)
SessionSwallows == TRUE

\* the shortest frame that holds the envelope: the four bytes before pkt,
\* the nine bytes of pkt up to the end of the address, the signal strength
\* byte (lines 97-102)
MinFrameLen == 4 + 9 + 1

\* ------------------------------------------------------------------------
\* The frames the receive call returns
\* ------------------------------------------------------------------------
\* byte i of an advertising report with the given event and sub-event codes:
\* three header bytes, sub-event, number of reports, advertisement type,
\* address type, six address bytes, data, signal strength
FrameByte(event, sub, i) ==
    IF i = 1 THEN 4
    ELSE IF i = 2 THEN event
    ELSE IF i = 3 THEN 12
    ELSE IF i = 4 THEN sub
    ELSE IF i = 5 THEN 1
    ELSE IF i = 6 THEN 131
    ELSE IF i = 7 THEN 0
    ELSE IF i \in 8..13 THEN 16 * (i - 7) + 1
    ELSE IF i = 14 THEN 1
    ELSE 200

Frames ==
    { [i \in 1..n |-> FrameByte(event, sub, i)] :
        n \in 0..MaxFrameLen, event \in {LE_META_EVENT, 14},
        sub \in {EVT_LE_ADVERTISING_REPORT, 1} }

\* the bytes a read past the end of a short address buffer may find
PadBytes == {0, 255}

\* ------------------------------------------------------------------------
\* State
\* ------------------------------------------------------------------------
VARIABLES
    adv_counter,      \* MiTH._adv_counter: the dict mac -> last adv_number
    mac_arg,          \* the mac of the latest decode_data_atc call
    packet_arg,       \* the packet of the latest decode_data_atc call
    adv_counter_pre,  \* _adv_counter as it was when the latest call began
    ret,              \* what the latest decode_data_atc call returned
    recognized,       \* dict mac -> adv_number of its latest frame that had a
                      \* preamble and a 13 or 15 byte data block
    recognized_pre,   \* recognized as it was when the latest call began
    pc,               \* the statement the session is about to execute
    hci_filter,       \* the HCI_FILTER socket option of the handle
    old_filter,       \* old_filter of parse_le_advertising_events
    scanning,         \* is scanning enabled at the radio
    calls,            \* the calls made on the adapter, the handle, the handler
    frame,            \* full_pkt, the frame of the latest receive call
    handler_args,     \* the arguments of the latest handler call
    intr_at,          \* the statement at which the interrupt was delivered
    restore_failed,   \* did the setsockopt of line 113 raise bluez.error
    loop_exit,        \* the exception that left parse_le_advertising_events
    outcome,          \* how handle_le_advertising_events ended
    latest_measurement_time,  \* MiTH._latest_measurement_time: mac -> time
    time_pre,         \* _latest_measurement_time when the latest call began
    perf_counter,     \* the latest value time.perf_counter() returned
    logged            \* what the latest handler call logged, None if nothing

dvars == <<adv_counter, mac_arg, packet_arg, adv_counter_pre, ret,
           recognized, recognized_pre>>

svars == <<pc, hci_filter, old_filter, scanning, calls, frame, handler_args,
           intr_at, restore_failed, loop_exit, outcome>>

hvars == <<latest_measurement_time, time_pre, perf_counter, logged>>

vars == <<dvars, svars, hvars>>

NoCall == <<>>

DecodeInit ==
    /\ adv_counter = EmptyDict
    /\ mac_arg = NoCall
    /\ packet_arg = <<>>
    /\ adv_counter_pre = EmptyDict
    /\ ret = None
    /\ recognized = EmptyDict
    /\ recognized_pre = EmptyDict

NoFilter == "unset"
NoArgs == <<>>
Running == "running"
SessionReturned == "returned"

\* before handle_le_advertising_events is called
ScanInit ==
    /\ pc = "device_enable"
    /\ hci_filter = NoFilter
    /\ old_filter = NoFilter
    /\ scanning = FALSE
    /\ calls = <<>>
    /\ frame = <<>>
    /\ handler_args = NoArgs
    /\ intr_at = NoExc
    /\ restore_failed = FALSE
    /\ loop_exit = NoExc
    /\ outcome = Running

\* no measurement seen yet
HandlerInit ==
    /\ latest_measurement_time = EmptyDict
    /\ time_pre = EmptyDict
    /\ perf_counter = 0
    /\ logged = None

\* nothing decoded yet, no session begun
Init == DecodeInit /\ ScanInit /\ HandlerInit

\* is the packet one with a preamble and a data block of a known length
Recognized(packet) ==
    /\ Find(packet, preamble) # -1
    /\ Len(packet) - Find(packet, preamble) - Len(preamble) \in {13, 15}

\* the sequence byte of a recognized packet, read from its end
SeqByteOf(packet) ==
    IF Len(packet) - Find(packet, preamble) - Len(preamble) = 13
    THEN packet[Len(packet)]
    ELSE packet[Len(packet) - 1]

\* one call decode_data_atc(mac, packet)
Decode(mac, packet) ==
    LET r == DecodeDataAtc(adv_counter, mac, packet)
    IN  /\ mac_arg' = mac
        /\ packet_arg' = packet
        /\ adv_counter_pre' = adv_counter
        /\ ret' = r.ret
        /\ adv_counter' = r.counter
        /\ recognized_pre' = recognized
        /\ recognized' = IF Recognized(packet)
                         THEN DictSet(recognized, mac, SeqByteOf(packet))
                         ELSE recognized
        /\ time_pre' = latest_measurement_time
        /\ logged' = None
        /\ UNCHANGED <<svars, latest_measurement_time, perf_counter>>

DecodeCall ==
    \E mac \in Macs, packet \in Packets : Decode(mac, packet)

DecodeNext == DecodeCall

SpecDecode == Init /\ [][DecodeNext]_vars

\* one call le_advertise_packet_handler(mac, _, data, rssi), lines 87-100,
\* with time.perf_counter() returning now
Handler(mac, data, rssi, now) ==
    LET r == DecodeDataAtc(adv_counter, mac, data)
    IN  /\ mac_arg' = mac
        /\ packet_arg' = data
        /\ adv_counter_pre' = adv_counter
        /\ ret' = r.ret
        /\ adv_counter' = r.counter
        /\ recognized_pre' = recognized
        /\ recognized' = IF Recognized(data)
                         THEN DictSet(recognized, mac, SeqByteOf(data))
                         ELSE recognized
        /\ time_pre' = latest_measurement_time
        /\ latest_measurement_time' = LatestTime(latest_measurement_time, mac, r.ret, now)
        /\ IF r.ret # None
           THEN /\ perf_counter' = now
                /\ logged' = LogLine(r.ret, mac, rssi,
                                     Elapsed(latest_measurement_time, mac, now))
           ELSE /\ perf_counter' = perf_counter
                /\ logged' = None
        /\ UNCHANGED svars

HandlerCall ==
    \E mac \in HandlerMacs, data \in HandlerPackets, rssi \in RssiValues,
       now \in (perf_counter + 1)..MaxClock :
        Handler(mac, data, rssi, now)

HandlerNext == HandlerCall

SpecHandler == Init /\ [][HandlerNext]_vars

\* ------------------------------------------------------------------------
\* The scan session: BtLe.handle_le_advertising_events and, called by it,
\* BtLe.parse_le_advertising_events, one statement at a time. One external
\* interrupt is delivered at most, at any statement.
\* ------------------------------------------------------------------------
Call(op, arg) == [op |-> op, arg |-> arg]

\* the number of calls of an operation made so far
Count(op) == Cardinality({ i \in DOMAIN calls : calls[i].op = op })

\* the exception e is raised at the statement at: the except clause of line
\* 111 takes a KeyboardInterrupt of the loop's try block, the one of line
\* 131 a KeyboardInterrupt that leaves parse_le_advertising_events, and
\* anything else ends the session with that exception
\* Unwind with the except clause of line 106 taking every exception of the
\* handler call, the interrupt too
UnwindHandlerCatchesAll(e, at) ==
    IF e = KeyboardInterrupt /\ at = "handler"
    THEN /\ pc' = "log_failure"
         /\ UNCHANGED <<loop_exit, outcome>>
    ELSE IF e = KeyboardInterrupt /\ at \in InLoopTry
    THEN /\ pc' = "restore"
         /\ UNCHANGED <<loop_exit, outcome>>
    ELSE IF at \in InSessionTry
    THEN /\ loop_exit' = e
         /\ IF e = KeyboardInterrupt
            THEN pc' = "scan_disable" /\ UNCHANGED outcome
            ELSE pc' = "done" /\ outcome' = e
    ELSE /\ pc' = "done"
         /\ outcome' = e
         /\ UNCHANGED loop_exit

Unwind(e, at) ==
    IF e = KeyboardInterrupt /\ at \in InLoopTry
    THEN /\ pc' = "restore"
         /\ UNCHANGED <<loop_exit, outcome>>
    ELSE IF at \in InSessionTry
    THEN /\ loop_exit' = e
         /\ IF e = KeyboardInterrupt
            THEN pc' = "scan_disable" /\ UNCHANGED outcome
            ELSE pc' = "done" /\ outcome' = e
    ELSE /\ pc' = "done"
         /\ outcome' = e
         /\ UNCHANGED loop_exit

\* BtLe.device_enable(device_id), line 120
DeviceEnable ==
    /\ pc = "device_enable"
    /\ calls' = Append(calls, Call("device_enable", ""))
    /\ \E ok \in BOOLEAN :
          IF ok THEN pc' = "open" /\ UNCHANGED <<loop_exit, outcome>>
          ELSE Unwind(OSError, pc)
    /\ UNCHANGED <<dvars, hvars>>
    /\ UNCHANGED <<hci_filter, old_filter, scanning, frame, handler_args,
                   intr_at, restore_failed>>

\* sock = BtLe.open(device_id), lines 122-126
Open ==
    /\ pc = "open"
    /\ calls' = Append(calls, Call("open", ""))
    /\ \/ \E f \in OpenFilters :
             /\ hci_filter' = f
             /\ pc' = "le_scan_enable"
             /\ UNCHANGED <<loop_exit, outcome>>
       \/ /\ Unwind(OpenError, pc)
          /\ UNCHANGED hci_filter
    /\ UNCHANGED <<dvars, hvars>>
    /\ UNCHANGED <<old_filter, scanning, frame, handler_args, intr_at,
                   restore_failed>>

\* BtLe.le_scan_enable(sock), lines 128 and 58-68: two commands, either of
\* which the radio may reject
LeScanEnable ==
    /\ pc = "le_scan_enable"
    /\ \/ /\ calls' = calls \o <<Call("scan_params", "passive"), Call("scan_enable", "1")>>
          /\ scanning' = TRUE
          /\ pc' = "call_parse"
          /\ UNCHANGED <<loop_exit, outcome>>
       \/ /\ calls' = Append(calls, Call("scan_params", "passive"))
          /\ Unwind(BluezError, pc)
          /\ UNCHANGED scanning
       \/ /\ calls' = calls \o <<Call("scan_params", "passive"), Call("scan_enable", "1")>>
          /\ Unwind(BluezError, pc)
          /\ UNCHANGED scanning
    /\ UNCHANGED <<dvars, hvars>>
    /\ UNCHANGED <<hci_filter, old_filter, frame, handler_args, intr_at,
                   restore_failed>>

\* entering the try block of line 129 and parse_le_advertising_events
CallParse ==
    /\ pc = "call_parse"
    /\ pc' = "getsockopt"
    /\ UNCHANGED <<dvars, hvars>>
    /\ UNCHANGED <<hci_filter, old_filter, scanning, calls, frame, handler_args,
                   intr_at, restore_failed, loop_exit, outcome>>

\* old_filter = sock.getsockopt(...), line 77
GetSockOpt ==
    /\ pc = "getsockopt"
    /\ old_filter' = hci_filter
    /\ calls' = Append(calls, Call("getsockopt", hci_filter))
    /\ pc' = "setsockopt"
    /\ UNCHANGED <<dvars, hvars>>
    /\ UNCHANGED <<hci_filter, scanning, frame, handler_args, intr_at,
                   restore_failed, loop_exit, outcome>>

\* lines 79-82 without the setsockopt call
SetSockOptSkipped ==
    /\ pc = "setsockopt"
    /\ pc' = "enter_loop"
    /\ UNCHANGED <<dvars, hvars>>
    /\ UNCHANGED <<hci_filter, calls, old_filter, scanning, frame, handler_args,
                   intr_at, restore_failed, loop_exit, outcome>>

\* sock.setsockopt(..., new_filter), lines 79-82
SetSockOpt ==
    /\ pc = "setsockopt"
    /\ hci_filter' = NewFilter
    /\ calls' = Append(calls, Call("setsockopt", NewFilter))
    /\ pc' = "enter_loop"
    /\ UNCHANGED <<dvars, hvars>>
    /\ UNCHANGED <<old_filter, scanning, frame, handler_args, intr_at,
                   restore_failed, loop_exit, outcome>>

\* entering the try block of line 84 and the loop
EnterLoop ==
    /\ pc = "enter_loop"
    /\ pc' = "recv"
    /\ UNCHANGED <<dvars, hvars>>
    /\ UNCHANGED <<hci_filter, old_filter, scanning, calls, frame, handler_args,
                   intr_at, restore_failed, loop_exit, outcome>>

\* pkt = full_pkt = sock.recv(255), line 86
Recv ==
    /\ pc = "recv"
    /\ Count("recv") < MaxFrames
    /\ calls' = Append(calls, Call("recv", ""))
    /\ \E f \in Frames : frame' = f
    /\ pc' = "parse"
    /\ UNCHANGED <<dvars, hvars>>
    /\ UNCHANGED <<hci_filter, old_filter, scanning, handler_args, intr_at,
                   restore_failed, loop_exit, outcome>>

\* sock.recv(255) fails, as on a closed socket
RecvFails ==
    /\ pc = "recv"
    /\ calls' = Append(calls, Call("recv", ""))
    /\ Unwind(OSError, pc)
    /\ UNCHANGED <<dvars, hvars>>
    /\ UNCHANGED <<hci_filter, old_filter, scanning, frame, handler_args,
                   intr_at, restore_failed>>

\* lines 87-102 and the call of line 105. bluez.ba2str is handed pkt[3:9]
\* whatever its length: of a buffer of fewer than six bytes it reads what
\* lies behind it, or rejects it
Parse ==
    /\ pc = "parse"
    /\ LET r == ParseFrame(frame)
       IN  IF r.kind = "raise"
           THEN Unwind(r.exc, pc) /\ UNCHANGED <<calls, handler_args>>
           ELSE IF r.kind = "continue"
           THEN /\ pc' = "recv"
                /\ UNCHANGED <<calls, handler_args, loop_exit, outcome>>
           ELSE \/ \E pad \in PadBytes :
                     /\ handler_args' =
                            [ mac |-> Ba2Str(r.addr \o [i \in 1..(6 - Len(r.addr)) |-> pad]),
                              adv_type |-> r.adv_type,
                              data |-> r.data,
                              rssi |-> r.rssi ]
                     /\ calls' = Append(calls, Call("handler", ""))
                     /\ pc' = "handler"
                     /\ UNCHANGED <<loop_exit, outcome>>
                \/ /\ Len(r.addr) < 6
                   /\ Unwind(AddrError, pc)
                   /\ UNCHANGED <<calls, handler_args>>
    /\ UNCHANGED <<dvars, hvars>>
    /\ UNCHANGED <<hci_filter, old_filter, scanning, frame, intr_at,
                   restore_failed>>

\* the handler returns, line 105
HandlerReturns ==
    /\ pc = "handler"
    /\ pc' = "recv"
    /\ UNCHANGED <<dvars, hvars>>
    /\ UNCHANGED <<hci_filter, old_filter, scanning, calls, frame, handler_args,
                   intr_at, restore_failed, loop_exit, outcome>>

\* the handler raises an Exception, caught at line 106
HandlerRaises ==
    /\ pc = "handler"
    /\ pc' = "log_failure"
    /\ UNCHANGED <<dvars, hvars>>
    /\ UNCHANGED <<hci_filter, old_filter, scanning, calls, frame, handler_args,
                   intr_at, restore_failed, loop_exit, outcome>>

\* lines 107-109: the failure is printed and the loop goes on
LogFailure ==
    /\ pc = "log_failure"
    /\ calls' = Append(calls, Call("print_exc", ""))
    /\ pc' = "recv"
    /\ UNCHANGED <<dvars, hvars>>
    /\ UNCHANGED <<hci_filter, old_filter, scanning, frame, handler_args,
                   intr_at, restore_failed, loop_exit, outcome>>

\* the external interrupt: KeyboardInterrupt is raised at the statement the
\* session has reached
Interrupt ==
    /\ intr_at = NoExc
    /\ pc \notin {"done", "restore", "scan_disable"}
    /\ intr_at' = pc
    /\ Unwind(KeyboardInterrupt, pc)
    /\ UNCHANGED <<dvars, hvars>>
    /\ UNCHANGED <<hci_filter, old_filter, scanning, calls, frame, handler_args,
                   restore_failed>>

\* the except clause of lines 111-116: the setsockopt of the saved filter,
\* a bluez.error of it printed and dropped, and the raise
Restore ==
    /\ pc = "restore"
    /\ calls' = Append(calls, Call("setsockopt", RestoreValue(old_filter, NewFilter)))
    /\ \E ok \in BOOLEAN :
          IF ok
          THEN hci_filter' = RestoreValue(old_filter, NewFilter) /\ UNCHANGED restore_failed
          ELSE restore_failed' = TRUE /\ UNCHANGED hci_filter
    /\ loop_exit' = KeyboardInterrupt
    /\ pc' = "scan_disable"
    /\ UNCHANGED <<dvars, hvars>>
    /\ UNCHANGED <<old_filter, scanning, frame, handler_args, intr_at, outcome>>

\* the except clause of lines 131-132: BtLe.le_scan_disable(sock), lines
\* 71-73, and the end of the function
ScanDisable ==
    /\ pc = "scan_disable"
    /\ calls' = Append(calls, Call("scan_enable", "0"))
    /\ pc' = "done"
    /\ \E ok \in BOOLEAN :
          IF ok
          THEN /\ scanning' = FALSE
               /\ outcome' = IF SessionSwallows THEN SessionReturned ELSE KeyboardInterrupt
          ELSE /\ outcome' = BluezError
               /\ UNCHANGED scanning
    /\ UNCHANGED <<dvars, hvars>>
    /\ UNCHANGED <<hci_filter, old_filter, frame, handler_args, intr_at,
                   restore_failed, loop_exit>>

ScanNext ==
    \/ DeviceEnable \/ Open \/ LeScanEnable \/ CallParse \/ GetSockOpt
    \/ SetSockOpt \/ EnterLoop \/ Recv \/ RecvFails \/ Parse
    \/ HandlerReturns \/ HandlerRaises \/ LogFailure \/ Interrupt
    \/ Restore \/ ScanDisable

SpecScan == Init /\ [][ScanNext]_vars

\* ------------------------------------------------------------------------
\* Claims about the decoder
\* ------------------------------------------------------------------------
\* the latest call returned a Measurement
Returned == mac_arg # NoCall /\ ret # None

\* C1: decode returns a Measurement only if the payload's sequence byte
\* differs from the sequence recorded for its address, and a recognized
\* frame that repeats the sequence byte of the address's previous recognized
\* frame (0 included, other addresses' frames in between or not) returns None
C1_DuplicateSuppression ==
    mac_arg # NoCall =>
        /\ ret # None =>
              /\ Recognized(packet_arg)
              /\ ~(/\ mac_arg \in DOMAIN adv_counter_pre
                    /\ adv_counter_pre[mac_arg] = SeqByteOf(packet_arg))
        /\ ( /\ Recognized(packet_arg)
              /\ mac_arg \in DOMAIN recognized_pre
              /\ recognized_pre[mac_arg] = SeqByteOf(packet_arg) ) => ret = None

\* C1 witness: a frame repeating sequence byte 0 was suppressed while a frame
\* of another address had been decoded since the start
C1_Witness ==
    /\ mac_arg # NoCall
    /\ Recognized(packet_arg)
    /\ SeqByteOf(packet_arg) = 0
    /\ mac_arg \in DOMAIN recognized_pre
    /\ recognized_pre[mac_arg] = 0
    /\ DOMAIN recognized_pre = Macs
    /\ ret = None

\* C2: with a previous sequence p recorded for the address and a current
\* sequence byte c # p, the Measurement has missed_count = (c - p - 1) mod 256
C2_MissedCountModular ==
    (Returned /\ mac_arg \in DOMAIN adv_counter_pre) =>
        ret.adv_missed = (ret.adv_number - adv_counter_pre[mac_arg] - 1) % 256

\* C8: every Measurement returned has sequence_number in 0..255 and
\* missed_count >= 0, and missed_count = 0 for the first recognized frame of
\* its address
C8_Ranges ==
    Returned =>
        /\ ret.adv_number \in 0..255
        /\ ret.adv_missed >= 0
        /\ mac_arg \notin DOMAIN recognized_pre => ret.adv_missed = 0

\* C9: decode returns None when the payload does not hold the three bytes
\* of the preamble in a row, and when the number of bytes after the first
\* preamble is neither 13 nor 15
C9_UnrecognizedYieldNone ==
    mac_arg # NoCall =>
        LET at == { i \in 1..(Len(packet_arg) - 2) :
                      /\ packet_arg[i] = 22
                      /\ packet_arg[i + 1] = 26
                      /\ packet_arg[i + 2] = 24 }
        IN  /\ at = {} => ret = None
            /\ \A i \in at :
                  ( /\ \A j \in at : i <= j
                    /\ Len(packet_arg) - (i + 2) \notin {13, 15} ) => ret = None

\* C9 witness: a payload whose first preamble is followed by 16 bytes, the
\* last 13 of them after a second preamble, returned None
C9_Witness ==
    /\ mac_arg # NoCall
    /\ Find(packet_arg, preamble) # -1
    /\ Len(packet_arg) - Find(packet_arg, preamble) - 3 = 16
    /\ SubSeq(packet_arg, Len(packet_arg) - 15, Len(packet_arg) - 13) = preamble
    /\ ret = None

\* C10: a Measurement of a 13 byte data block is ATC1441 (FormatA) with the
\* sequence number of the block's last byte, one of a 15 byte data block is
\* PVVX (FormatB) with that of its second-to-last byte, whatever the bytes
\* and the address
C10_ClassifiedByLength ==
    Returned =>
        LET n == Len(packet_arg) - Find(packet_arg, preamble) - 3
        IN  /\ n \in {13, 15}
            /\ n = 13 => /\ ret.device_type = ATC1441
                          /\ ret.adv_number = packet_arg[Len(packet_arg)]
            /\ n = 15 => /\ ret.device_type = PVVX
                          /\ ret.adv_number = packet_arg[Len(packet_arg) - 1]

\* C10 witness: a PVVX Measurement whose sequence number is not the last
\* byte of its payload
C10_Witness ==
    /\ Returned
    /\ ret.device_type = PVVX
    /\ ret.adv_number # packet_arg[Len(packet_arg)]

\* the data block of the latest call's packet: its last n bytes
LastBytes(n) == SubSeq(packet_arg, Len(packet_arg) - n + 1, Len(packet_arg))

\* C11: for a 13 byte FormatA block d that yields a Measurement,
\* temperature*10 is the big-endian signed 16-bit integer d[6..7], humidity
\* is d[8], battery_percent is d[9] and battery_millivolts is the
\* little-endian d[10] + 256*d[11]
C11_FormatAFields ==
    (Returned /\ ret.device_type = ATC1441) =>
        LET d == LastBytes(13)
            u == 256 * d[7] + d[8]
        IN  /\ ret.fields.temperature.num * 10 =
                  (IF u >= 32768 THEN u - 65536 ELSE u) * ret.fields.temperature.den
            /\ ret.fields.humidity.num = d[9] * ret.fields.humidity.den
            /\ ret.fields.battery_percentage = d[10]
            /\ ret.fields.battery_voltage = d[11] + 256 * d[12]

\* C11 as amended: the same, with battery_millivolts the big-endian
\* 256*d[10] + d[11]
C11_FormatAFieldsBigEndian ==
    (Returned /\ ret.device_type = ATC1441) =>
        LET d == LastBytes(13)
            u == 256 * d[7] + d[8]
        IN  /\ ret.fields.temperature.num * 10 =
                  (IF u >= 32768 THEN u - 65536 ELSE u) * ret.fields.temperature.den
            /\ ret.fields.humidity.num = d[9] * ret.fields.humidity.den
            /\ ret.fields.battery_percentage = d[10]
            /\ ret.fields.battery_voltage = 256 * d[11] + d[12]

\* C11 witness: a FormatA Measurement below zero degrees whose battery
\* bytes read differently in the two byte orders
C11_Witness ==
    /\ Returned
    /\ ret.device_type = ATC1441
    /\ ret.fields.temperature.num = -200
    /\ LastBytes(13)[11] # LastBytes(13)[12]
    /\ ret.fields.battery_voltage = 256 * LastBytes(13)[11] + LastBytes(13)[12]

\* C12: for a 15 byte FormatB block d that yields a Measurement,
\* temperature*100 is the little-endian signed 16-bit integer d[6..7],
\* humidity*100 is d[8] + 256*d[9], battery_millivolts is d[10] + 256*d[11]
\* and battery_percent is d[12]
C12_FormatBFields ==
    (Returned /\ ret.device_type = PVVX) =>
        LET d == LastBytes(15)
            u == d[7] + 256 * d[8]
        IN  /\ ret.fields.temperature.num * 100 =
                  (IF u >= 32768 THEN u - 65536 ELSE u) * ret.fields.temperature.den
            /\ ret.fields.humidity.num * 100 =
                  (d[9] + 256 * d[10]) * ret.fields.humidity.den
            /\ ret.fields.battery_voltage = d[11] + 256 * d[12]
            /\ ret.fields.battery_percentage = d[13]

\* C12 witness: a FormatB Measurement with the raw humidity 6000, 60.00
\* percent
C12_Witness ==
    /\ Returned
    /\ ret.device_type = PVVX
    /\ LastBytes(15)[9] = 112
    /\ LastBytes(15)[10] = 23
    /\ ret.fields.humidity = [num |-> 6000, den |-> 100]

\* C14: a recorded sequence of 0 counts as a previous sequence: after a
\* recognized frame with sequence byte 0, a frame of the same address with
\* sequence byte c > 0 reports missed_count = c - 1
C14_ZeroIsAPreviousSequence ==
    ( /\ Returned
      /\ mac_arg \in DOMAIN recognized_pre
      /\ recognized_pre[mac_arg] = 0 ) => ret.adv_missed = ret.adv_number - 1

\* C18: a decode call for an address changes the recorded sequence of no
\* other address, and whether it returns a Measurement, and with what
\* missed_count, is decided by the packet and the latest recognized frame of
\* its own address, however other addresses' frames are interleaved
C18_PerAddressIsolation ==
    mac_arg # NoCall =>
        LET own == mac_arg \in DOMAIN recognized_pre
        IN  /\ \A b \in Macs \ {mac_arg} :
                  /\ b \in DOMAIN adv_counter <=> b \in DOMAIN adv_counter_pre
                  /\ b \in DOMAIN adv_counter => adv_counter[b] = adv_counter_pre[b]
            /\ ret = None <=>
                  \/ ~Recognized(packet_arg)
                  \/ own /\ recognized_pre[mac_arg] = SeqByteOf(packet_arg)
            /\ ret # None =>
                  ret.adv_missed =
                      IF own /\ recognized_pre[mac_arg] # 0
                      THEN SeqByteOf(packet_arg) - recognized_pre[mac_arg] - 1
                      ELSE 0

\* C18 witness: a Measurement with a missed count for one address while
\* another address has a different sequence recorded
C18_Witness ==
    /\ Returned
    /\ ret.adv_missed > 0
    /\ \E b \in Macs \ {mac_arg} :
          /\ b \in DOMAIN adv_counter
          /\ adv_counter[b] # adv_counter[mac_arg]
          /\ adv_counter[b] # adv_counter_pre[mac_arg]

\* C19: the recorded sequence of an address is absent when no frame of it
\* with a preamble and a 13 or 15 byte data block was decoded, and is the
\* sequence byte of its latest such frame otherwise
C19_CounterTracksLatestFrame ==
    /\ DOMAIN adv_counter = DOMAIN recognized
    /\ \A m \in DOMAIN recognized : adv_counter[m] = recognized[m]

\* C19 witness: both addresses have a sequence recorded, one has none of
\* the other's, and the latest call was a suppressed duplicate
C19_Witness ==
    /\ DOMAIN adv_counter = Macs
    /\ \E a \in Macs, b \in Macs : adv_counter[a] # adv_counter[b]
    /\ mac_arg # NoCall
    /\ Recognized(packet_arg)
    /\ ret = None

\* ------------------------------------------------------------------------
\* Claims about the handler
\* ------------------------------------------------------------------------
\* C13: the label of a logged measurement is the configured label when the
\* address is a key of the static table; otherwise, for an address that
\* starts with A4:C1:38, the last three octets concatenated; otherwise the
\* address string itself
C13_LabelResolutionOrder ==
    logged # None =>
        logged.sensor_name =
            IF mac_arg = <<"A4", "C1", "38", "xx", "xx", "xx">> THEN "kitchen"
            ELSE IF SubSeq(mac_arg, 1, 3) = <<"A4", "C1", "38">>
            THEN mac_arg[4] \o mac_arg[5] \o mac_arg[6]
            ELSE mac_arg[1] \o ":" \o mac_arg[2] \o ":" \o mac_arg[3] \o ":"
                 \o mac_arg[4] \o ":" \o mac_arg[5] \o ":" \o mac_arg[6]

\* C13 witness: a measurement of the configured address, which has the
\* vendor prefix too, was logged under its configured label
C13_Witness ==
    /\ logged # None
    /\ mac_arg \in DOMAIN sensors
    /\ VendorMatch(mac_arg)
    /\ logged.sensor_name = "kitchen"

\* C16: after a call in which decode_data_atc returned None the recorded
\* sequence and the recorded observation time of every address are what
\* they were before the call, and nothing was logged
C16_NoneChangesNothing ==
    (mac_arg # NoCall /\ ret = None) =>
        /\ adv_counter = adv_counter_pre
        /\ latest_measurement_time = time_pre
        /\ logged = None

\* C16 witness: a recognized frame repeating the recorded sequence of an
\* address that has an observation time was dropped
C16_Witness ==
    /\ mac_arg # NoCall
    /\ ret = None
    /\ Recognized(packet_arg)
    /\ mac_arg \in DOMAIN latest_measurement_time
    /\ mac_arg \in DOMAIN adv_counter

\* ------------------------------------------------------------------------
\* Claims about the scan session
\* ------------------------------------------------------------------------
\* the argument of the latest setsockopt call, NoFilter before the first
LastFilterSet ==
    LET at == { i \in DOMAIN calls : calls[i].op = "setsockopt" }
    IN  IF at = {} THEN NoFilter
        ELSE calls[CHOOSE i \in at : \A j \in at : j <= i].arg

\* the custom filter has been installed (line 82)
Installed == \E i \in DOMAIN calls : calls[i] = Call("setsockopt", NewFilter)

\* the interrupt was delivered while the loop was blocked in receive,
\* parsing, running the handler or logging its failure
InterruptedInLoop == intr_at \in {"recv", "parse", "handler", "log_failure"}

\* C3: when the loop is cancelled by the interrupt while it is blocked in
\* receive, parsing or running the handler, the filter saved before the
\* installation has been set on the handle again, after the installation,
\* by the time the interrupt has left the loop; the handle carries it unless
\* that setsockopt call itself failed
C3_CancellationRestoresFilter ==
    (InterruptedInLoop /\ pc \in {"scan_disable", "done"}) =>
        /\ loop_exit = KeyboardInterrupt
        /\ Installed
        /\ old_filter # NewFilter
        /\ LastFilterSet = old_filter
        /\ ~restore_failed => hci_filter = old_filter

\* C3 witness: interrupted in the handler, the loop has put the saved filter
\* back on the handle and the interrupt has left it
C3_Witness ==
    /\ intr_at = "handler"
    /\ Len(frame) >= MinFrameLen
    /\ loop_exit = KeyboardInterrupt
    /\ Installed
    /\ hci_filter = old_filter
    /\ old_filter \in OpenFilters

\* C4: whenever the receive loop has exited, by cancellation or by a failure
\* of the receive call, the saved filter has been set on the handle again
C4_FilterRestoredOnEveryExit ==
    ( /\ loop_exit # NoExc
      /\ Installed
      /\ intr_at \notin {"getsockopt", "setsockopt", "enter_loop"} ) =>
        LastFilterSet = old_filter

\* C5: a handler failure does not end the loop, and nothing but the
\* interrupt or a failure of the receive call ever ends it
C5_HandlerFailureIsolation ==
    /\ pc = "log_failure" => (loop_exit = NoExc /\ outcome = Running)
    /\ (loop_exit # NoExc /\ Count("recv") > 0) =>
          loop_exit \in {KeyboardInterrupt, OSError}

\* C6: a session cancelled by the interrupt ends with the interrupt still
\* signaled to its caller
C6_InterruptNotSwallowed ==
    (InterruptedInLoop /\ pc = "done" /\ ~scanning) =>
        outcome = KeyboardInterrupt

\* C6 as amended: interrupted in its loop, the session has, when it ends,
\* set the saved filter again, then sent the scan-disable command, and it
\* returns normally (or raises the radio error of a rejected scan-disable
\* command): the interrupt left the loop but not the session
C6_InterruptSwallowedBySession ==
    (InterruptedInLoop /\ pc = "done") =>
        /\ loop_exit = KeyboardInterrupt
        /\ Len(calls) >= 2
        /\ calls[Len(calls)] = Call("scan_enable", "0")
        /\ calls[Len(calls) - 1] = Call("setsockopt", old_filter)
        /\ \/ outcome = SessionReturned /\ ~scanning
           \/ outcome = BluezError /\ scanning

\* C6 witness: a session interrupted while blocked in receive has restored
\* the filter, disabled scanning and returned
C6_Witness ==
    /\ intr_at = "recv"
    /\ pc = "done"
    /\ outcome = SessionReturned
    /\ ~scanning
    /\ hci_filter = old_filter

\* C7: a received frame shorter than the minimum envelope is dropped: the
\* handler is not called for it and it does not end the loop
C7_TruncatedFramesDropped ==
    (Count("recv") > 0 /\ Len(frame) < MinFrameLen) =>
        /\ pc \notin {"handler", "log_failure"}
        /\ loop_exit \notin {StructError, AddrError}

\* C15: a session that has ended after its receive loop was left, by the
\* interrupt or by an error, has sent the scan-disable command
C15_ScanDisabledOnEveryExit ==
    (pc = "done" /\ loop_exit # NoExc) =>
        \E i \in DOMAIN calls : calls[i] = Call("scan_enable", "0")

\* the commands of the start-up, in their order; the getsockopt call is
\* logged with the filter it read
StartUp ==
    <<"device_enable", "open", "scan_params", "scan_enable", "getsockopt", "setsockopt">>

\* the call c is step k of the start-up: the scan-enable command is the one
\* that enables, the setsockopt call the one that installs the event filter
IsStep(c, k) ==
    /\ c.op = StartUp[k]
    /\ c.op = "scan_enable" => c.arg = "1"
    /\ c.op = "setsockopt" => c.arg = NewFilter

\* C17: every start-up command a session has issued was issued once, at its
\* place in the order and after all the steps before it; every receive
\* and every handler call comes after the installation of the filter; and
\* a session whose open failed has ended with that error after the calls to
\* bring the adapter up and to open the handle, and nothing else
C17_StartUpOrdering ==
    /\ \A i \in DOMAIN calls :
          /\ \A k \in DOMAIN StartUp :
                IsStep(calls[i], k) =>
                    i = k /\ \A j \in 1..(k - 1) : IsStep(calls[j], j)
          /\ calls[i].op \in {"recv", "handler"} =>
                \E j \in 1..(i - 1) : calls[j] = Call("setsockopt", NewFilter)
    /\ pc \in {"recv", "parse", "handler", "log_failure"} => hci_filter = NewFilter
    /\ (Count("open") > 0 /\ hci_filter = NoFilter) =>
          /\ pc = "done"
          /\ outcome = OpenError
          /\ calls = <<Call("device_enable", ""), Call("open", "")>>

\* C17 witness: the handler was invoked in a session that went through the
\* whole start-up
C17_Witness ==
    /\ Count("handler") > 0
    /\ Len(calls) > Len(StartUp)
    /\ calls[Len(StartUp)] = Call("setsockopt", NewFilter)
    /\ calls[Len(StartUp) + 1] = Call("recv", "")

\* the position of the latest handler call, 0 before the first
LastHandlerCall ==
    LET at == { i \in DOMAIN calls : calls[i].op = "handler" }
    IN  IF at = {} THEN 0 ELSE CHOOSE i \in at : \A j \in at : j <= i

\* C20: an interrupt delivered while the handler runs is not logged as a
\* handler failure and nothing is received after it: the loop sets the
\* saved filter again and the interrupt leaves the loop, also when that
\* setsockopt call fails
C20_InterruptInHandlerIsCancellation ==
    intr_at = "handler" =>
        /\ pc \in {"restore", "scan_disable", "done"}
        /\ LastHandlerCall > 0
        /\ \A i \in DOMAIN calls :
              i > LastHandlerCall => calls[i].op \in {"setsockopt", "scan_enable"}
        /\ pc \in {"scan_disable", "done"} =>
              /\ loop_exit = KeyboardInterrupt
              /\ calls[LastHandlerCall + 1] = Call("setsockopt", old_filter)
        /\ restore_failed =>
              /\ loop_exit = KeyboardInterrupt
              /\ hci_filter = NewFilter

\* C20 witness: interrupted in the handler, the loop failed to set the
\* saved filter and the interrupt has left it all the same
C20_Witness ==
    /\ intr_at = "handler"
    /\ restore_failed
    /\ loop_exit = KeyboardInterrupt
    /\ pc = "scan_disable"
====
